---- MODULE Spec2Model ----
(***************************************************************************)
(* Model of src/auto_git_push.py: a script that brings a working directory *)
(* to a configured git state (repository, branch, origin, upstream) and    *)
(* then polls it, committing and pushing changes.                          *)
(*                                                                         *)
(* The git tool is modelled by what each command the script issues does to *)
(* the repository and what it prints and returns; the Python functions are *)
(* operators over a threaded state record s (the world the commands act    *)
(* on plus the commands issued and the calls made by the current step).    *)
(***************************************************************************)
EXTENDS Naturals, Sequences, FiniteSets, TLC

VARIABLES
    world,            \* filesystem, local repository, remote repository
    pc,               \* position of auto_push_loop
    branch,           \* local variable `branch` of auto_push_loop
    BRANCH_NAME_ENV,  \* configuration, fixed for a run
    REMOTE_URL,
    CREATE_GITIGNORE,
    GITIGNORE_EXTRA,
    initBranch,       \* git's init.defaultBranch (tool configuration)
    atStart,          \* world when the current run of the script started
    runs              \* how many times the script has been started

vars == <<world, pc, branch, BRANCH_NAME_ENV, REMOTE_URL, CREATE_GITIGNORE,
          GITIGNORE_EXTRA, initBranch, atStart, runs>>

config == <<BRANCH_NAME_ENV, REMOTE_URL, CREATE_GITIGNORE, GITIGNORE_EXTRA, initBranch>>

----------------------------------------------------------------------------
(* Bounds of the model *)

MaxCommits == 2   \* edits stop once a branch holds this many commits
MaxRuns == 2      \* the script is started at most this many times

(* Values *)

None == "None"                 \* Python's None / an unset option
Detached == "HEAD"             \* what git prints for a detached HEAD
Branches == {"main", "dev"}
Urls == {"urlA", "urlB"}
NoRefs == [b \in {} |-> 0]

Put(f, k, v) == [x \in (DOMAIN f) \cup {k} |-> IF x = k THEN v ELSE f[x]]
Drop(f, k) == [x \in (DOMAIN f) \ {k} |-> f[x]]

(* the part of the threaded state that is the repository, the directory and
   the remote: what "the repository state" of a claim means *)
Snap(s) ==
    [exists |-> s.exists, writable |-> s.writable, gitfile |-> s.gitfile,
     isRepo |-> s.isRepo,
     refs |-> s.refs, head |-> s.head, origin |-> s.origin,
     tracking |-> s.tracking, upstream |-> s.upstream, tree |-> s.tree,
     ignore |-> s.ignore, hook |-> s.hook, identity |-> s.identity,
     server |-> s.server]

\* a command that changes something is noted in the run's set of commands and
\* in the step's sequence of commands
Issue(s, cmd) == [s EXCEPT !.issued = @ \cup {cmd}, !.trace = Append(@, cmd)]

Res(s, out, err, rc) == [s |-> s, out |-> out, err |-> err, rc |-> rc]

----------------------------------------------------------------------------
(* The git commands the script issues.  Each takes the threaded state and   *)
(* gives the state after the command, its stdout, its stderr and its exit   *)
(* status.                                                                  *)

Born(s) == s.head \in DOMAIN s.refs
HeadCommits(s) == IF Born(s) THEN s.refs[s.head] ELSE 0

\* git rev-parse --is-inside-work-tree
GitIsInsideWorkTree(s) ==
    IF s.isRepo THEN Res(s, "true", "", 0) ELSE Res(s, "", "fatal", 128)

\* git config --get remote.origin.url
GitConfigGetUrl(s) ==
    IF s.isRepo /\ s.origin # None THEN Res(s, s.origin, "", 0) ELSE Res(s, "", "", 1)

\* git rev-parse --abbrev-ref HEAD
GitAbbrevRefHead(s) ==
    IF ~s.isRepo THEN Res(s, "", "fatal", 128)
    ELSE IF Born(s) THEN Res(s, s.head, "", 0)
    ELSE Res(s, "HEAD", "fatal", 128)

\* git symbolic-ref --short HEAD
GitSymbolicRefHead(s) ==
    IF s.isRepo /\ s.head # Detached THEN Res(s, s.head, "", 0)
    ELSE Res(s, "", "fatal", 128)

\* git rev-parse --verify <b>
GitRevParseVerify(s, b) ==
    IF s.isRepo /\ b \in DOMAIN s.refs THEN Res(s, "sha", "", 0)
    ELSE Res(s, "", "fatal", 128)

\* git checkout <b>: an existing local branch, or (git's guess) a new local
\* branch tracking the fetched remote branch origin/<b>
GitCheckout(s0, b) ==
    LET s == Issue(s0, "checkout") IN
    IF ~s.isRepo THEN Res(s, "", "fatal", 128)
    ELSE IF b \in DOMAIN s.refs
    THEN Res([s EXCEPT !.head = b, !.refs = Drop(@, Detached)], "", "Switched", 0)
    ELSE IF b \in DOMAIN s.tracking
    THEN Res([s EXCEPT !.head = b,
                       !.refs = Put(Drop(@, Detached), b, s.tracking[b]),
                       !.upstream = @ \cup {b}], "tracking", "Switched", 0)
    ELSE Res(s, "", "error: pathspec", 1)

\* git checkout -b <b> --track origin/<b>
GitCheckoutTrack(s0, b) ==
    LET s == Issue(s0, "checkout -b --track") IN
    IF ~s.isRepo \/ b \in DOMAIN s.refs \/ b \notin DOMAIN s.tracking
    THEN Res(s, "", "fatal", 128)
    ELSE Res([s EXCEPT !.head = b,
                       !.refs = Put(Drop(@, Detached), b, s.tracking[b]),
                       !.upstream = @ \cup {b}], "tracking", "Switched", 0)

\* git checkout -b <b>
GitCheckoutNew(s0, b) ==
    LET s == Issue(s0, "checkout -b") IN
    IF ~s.isRepo \/ b \in DOMAIN s.refs THEN Res(s, "", "fatal", 128)
    ELSE IF Born(s)
    THEN Res([s EXCEPT !.head = b,
                       !.refs = Put(Drop(@, Detached), b, s.refs[s.head])],
             "", "Switched", 0)
    ELSE Res([s EXCEPT !.head = b], "", "Switched", 0)

\* git ls-remote --heads origin <b>; net: the remote can be reached
GitLsRemote(s, b, net) ==
    IF s.isRepo /\ s.origin # None /\ net
    THEN Res(s, IF b \in DOMAIN s.server THEN "refs/heads" ELSE "", "", 0)
    ELSE Res(s, "", "fatal", 128)

\* git rev-parse --abbrev-ref <b>@{upstream}
GitUpstreamOf(s, b) ==
    IF s.isRepo /\ b \in DOMAIN s.refs /\ b \in s.upstream
    THEN Res(s, "origin/branch", "", 0)
    ELSE Res(s, "", "fatal", 128)

\* git push origin <b>, with -u when track
GitPushTo(s, b, net, track) ==
    IF s.isRepo /\ s.origin # None /\ b \in DOMAIN s.refs /\ net
    THEN Res([s EXCEPT !.server = Put(@, b, s.refs[b]),
                       !.tracking = Put(@, b, s.refs[b]),
                       !.upstream = IF track THEN @ \cup {b} ELSE @],
             IF track THEN "set up to track" ELSE "", "", 0)
    ELSE Res(s, "", "error", 1)

GitPushU(s, b, net) == GitPushTo(Issue(s, "push -u"), b, net, TRUE)

GitPush(s, b, net) == GitPushTo(Issue(s, "push"), b, net, FALSE)

\* git status --porcelain
GitStatus(s) ==
    IF ~s.isRepo THEN Res(s, "", "fatal", 128)
    ELSE Res(s, IF s.tree # "clean" THEN "changes" ELSE "", "", 0)

\* git add -A
GitAddAll(s0) ==
    LET s == Issue(s0, "add") IN
    IF ~s.isRepo THEN Res(s, "", "fatal", 128)
    ELSE Res([s EXCEPT !.tree = IF @ = "modified" THEN "staged" ELSE @], "", "", 0)

\* git commit -m <message>
GitCommit(s0) ==
    LET s == Issue(s0, "commit") IN
    IF ~s.isRepo THEN Res(s, "", "fatal", 128)
    ELSE IF s.tree = "clean" THEN Res(s, "nothing to commit", "", 1)
    ELSE IF s.tree = "modified" THEN Res(s, "no changes added to commit", "", 1)
    ELSE IF ~s.identity THEN Res(s, "", "fatal: unable to auto-detect email", 128)
    ELSE IF s.hook THEN Res(s, "", "pre-commit hook failed", 1)
    ELSE Res([s EXCEPT !.refs = Put(@, s.head, HeadCommits(s) + 1),
                       !.tree = "clean"], "committed", "", 0)

\* git init
GitInit(s0) ==
    LET s == Issue(s0, "init") IN
    IF ~s.writable THEN Res(s, "", "fatal: cannot mkdir", 1)
    ELSE IF s.gitfile THEN Res(s, "", "fatal: invalid gitfile format", 128)
    ELSE IF s.isRepo THEN Res(s, "Reinitialized", "", 0)
    ELSE Res([s EXCEPT !.isRepo = TRUE, !.head = initBranch], "Initialized", "", 0)

\* git remote remove origin
GitRemoteRemove(s0) ==
    LET s == Issue(s0, "remote remove") IN
    IF s.isRepo /\ s.origin # None
    THEN Res([s EXCEPT !.origin = None, !.tracking = NoRefs, !.upstream = {}],
             "", "", 0)
    ELSE Res(s, "", "error: No such remote", 2)

\* git remote add origin <url>
GitRemoteAdd(s0, url) ==
    LET s == Issue(s0, "remote add") IN
    IF s.isRepo /\ s.origin = None
    THEN Res([s EXCEPT !.origin = url], "", "", 0)
    ELSE Res(s, "", "error: remote origin already exists", 3)

\* git config --global user.name / user.email
GitConfigGlobalUser(s) == Res([s EXCEPT !.identity = TRUE], "", "", 0)

----------------------------------------------------------------------------
(* The script's functions.  A function gives [s |-> state after, ret |->    *)
(* its return value].                                                       *)

\* subprocess.run raises CalledProcessError only when check is true: with
\* check false every exit status comes back as (stdout, True)
\* (the step's outcomes note each command's exit status beside the success
\* flag returned for it)
Outcome(s, rc, ok) == [s EXCEPT !.outcomes = @ \cup {[zero |-> rc = 0, ok |-> ok]}]

run_command(res, check) ==
    IF check /\ res.rc # 0
    THEN [s |-> Outcome(res.s, res.rc, FALSE),
          out |-> IF res.out # "" THEN res.out ELSE res.err, ok |-> FALSE]
    ELSE [s |-> Outcome(res.s, res.rc, TRUE), out |-> res.out, ok |-> TRUE]

\* the record of one call, kept for the step that made it
Called(fn, arg, s0, r) ==
    [s |-> [r.s EXCEPT !.calls = Append(@, [fn |-> fn, arg |-> arg, pre |-> Snap(s0),
                                           post |-> Snap(r.s), ret |-> r.ret])],
     ret |-> r.ret]

\* faulty variant: the comparison without .lower(), against Python's "True"
is_git_repo_cased(s) ==
    LET r == run_command(GitIsInsideWorkTree(s), FALSE) IN r.ok /\ r.out = "True"

is_git_repo(s) ==
    LET r == run_command(GitIsInsideWorkTree(s), FALSE) IN r.ok /\ r.out = "true"

get_repo_url(s) ==
    LET r == run_command(GitConfigGetUrl(s), FALSE) IN
    IF r.ok /\ r.out # "" THEN r.out ELSE "Unknown"

get_current_branch(s) ==
    LET r == run_command(GitAbbrevRefHead(s), FALSE)
        r2 == run_command(GitSymbolicRefHead(s), FALSE)
    IN  IF r.ok /\ r.out # "" /\ r.out # "HEAD" THEN r.out
        ELSE IF r2.ok /\ r2.out # "" THEN r2.out
        ELSE None

checkout_or_create_branch(s, b, net) ==
    LET v == run_command(GitRevParseVerify(s, b), FALSE)
        l == run_command(GitLsRemote(v.s, b, net), FALSE)
        c1 == run_command(GitCheckout(v.s, b), FALSE)
        c3 == run_command(GitCheckoutTrack(l.s, b), FALSE)
        c4 == run_command(GitCheckoutNew(l.s, b), FALSE)
    IN  Called("checkout_or_create_branch", b, s,
               IF v.ok THEN [s |-> c1.s, ret |-> c1.ok]
               ELSE IF l.ok THEN [s |-> c3.s, ret |-> c3.ok]
               ELSE [s |-> c4.s, ret |-> c4.ok])

setup_git_config(s) ==
    run_command(GitConfigGlobalUser(run_command(GitConfigGlobalUser(s), FALSE).s), FALSE).s

has_changes(s) ==
    LET r == run_command(GitStatus(s), FALSE)
    IN  Called("has_changes", "", s, [s |-> r.s, ret |-> r.ok /\ r.out # ""])

\* faulty variant: the tracking push is made whether or not an upstream is set
ensure_upstream_always(s, b, net) ==
    LET u == run_command(GitUpstreamOf(s, b), FALSE)
        p == run_command(GitPushU(u.s, b, net), FALSE)
    IN  Called("ensure_upstream", b, s, [s |-> p.s, ret |-> p.ok])

ensure_upstream(s, b, net) ==
    LET u == run_command(GitUpstreamOf(s, b), FALSE)
        p == run_command(GitPushU(u.s, b, net), FALSE)
    IN  Called("ensure_upstream", b, s,
               IF u.ok THEN [s |-> u.s, ret |-> TRUE]
               ELSE [s |-> p.s, ret |-> p.ok])

commit_all(s) ==
    LET a == run_command(GitAddAll(s), FALSE)
        c == run_command(GitCommit(a.s), FALSE)
    IN  Called("commit_all", "", s,
               IF ~a.ok THEN [s |-> a.s, ret |-> FALSE]
               ELSE IF ~c.ok
               THEN [s |-> c.s, ret |-> c.out = "nothing to commit"]
               ELSE [s |-> c.s, ret |-> TRUE])

push(s, b, net) ==
    LET r == run_command(GitPush(s, b, net), FALSE)
    IN  Called("push", b, s, [s |-> r.s, ret |-> r.ok])

\* Path.write_text / open("a") raise PermissionError in a directory that
\* cannot be written
write_gitignore_if_needed(s) ==
    IF ~CREATE_GITIGNORE THEN s
    ELSE LET w == \/ s.ignore = <<>>
                  \/ GITIGNORE_EXTRA
             s1 == IF s.ignore = <<>>
                   THEN [s EXCEPT !.ignore = <<"default">>,
                                  !.tree = IF s.isRepo /\ @ = "clean" THEN "modified" ELSE @]
                   ELSE s
             s2 == IF GITIGNORE_EXTRA
                   THEN [s1 EXCEPT !.ignore = Append(@, "extra"),
                                   !.tree = IF s.isRepo /\ @ = "clean" THEN "modified" ELSE @]
                   ELSE s1
         IN  IF ~w THEN s
             ELSE IF ~s.writable THEN [s EXCEPT !.exc = "PermissionError"]
             ELSE Issue(s2, "write .gitignore")

\* faulty variant: the first commit without staging anything
InitialCommit_no_add(s) == run_command(GitCommit(s), FALSE).s

\* lines 220-223: the first commit, if there is anything to commit
InitialCommit(s) ==
    run_command(GitCommit(run_command(GitAddAll(s), FALSE).s), FALSE).s

\* faulty variant: the stale origin is removed and the new one never added
AttachRemote_no_add(s, remote_url, default_branch, net) ==
    IF remote_url = None THEN s
    ELSE ensure_upstream(run_command(GitRemoteRemove(s), FALSE).s, default_branch, net).s

\* lines 230-239: attach origin and make the first push
AttachRemote(s, remote_url, default_branch, net) ==
    IF remote_url = None THEN s
    ELSE LET rm == run_command(GitRemoteRemove(s), FALSE)
             ad == run_command(GitRemoteAdd(rm.s, remote_url), FALSE)
         IN  ensure_upstream(ad.s, default_branch, net).s

ensure_git_repo(s, remote_url, default_branch, net) ==
    LET i == run_command(GitInit(s), FALSE)
        g == write_gitignore_if_needed(i.s)
        b == checkout_or_create_branch(InitialCommit(g), default_branch, net)
    IN  IF is_git_repo(s)
        THEN Called("ensure_git_repo", default_branch, s, [s |-> s, ret |-> TRUE])
        ELSE IF ~i.ok
        THEN Called("ensure_git_repo", default_branch, s, [s |-> i.s, ret |-> FALSE])
        ELSE IF g.exc # ""
        THEN [s |-> g, ret |-> FALSE]    \* the exception leaves the function
        ELSE Called("ensure_git_repo", default_branch, s,
                    [s |-> AttachRemote(b.s, remote_url, default_branch, net),
                     ret |-> TRUE])

----------------------------------------------------------------------------
(* Start states: the directory REPO_PATH names before the script runs.      *)

Counts(S) == [b \in S |-> 1]

\* a directory that is missing, or exists and holds no repository; it may
\* be one that cannot be written, or hold a file named .git that git cannot
\* read: `git init` fails in both
FreshWorlds ==
    {[exists |-> e, writable |-> w, isRepo |-> FALSE, refs |-> NoRefs, head |-> None,
      origin |-> None, tracking |-> NoRefs, upstream |-> {}, tree |-> t,
      ignore |-> ig, hook |-> FALSE, identity |-> id, server |-> Counts(sv),
      gitfile |-> gf, issued |-> {}, calls |-> <<>>, exc |-> "", trace |-> <<>>,
      outcomes |-> {}, sig |-> FALSE] :
        e \in BOOLEAN, w \in BOOLEAN, gf \in BOOLEAN, t \in {"clean", "modified"},
        ig \in {<<>>, <<"user">>}, id \in {FALSE}, sv \in SUBSET Branches}

FreshOk(w) ==
    /\ ~w.exists => (w.writable /\ ~w.gitfile /\ w.tree = "clean"
                     /\ w.ignore = <<>> /\ w.server = NoRefs)
    /\ w.gitfile => w.writable
    /\ w.ignore # <<>> => w.tree = "modified"

\* an existing repository: on a branch with commits, on an unborn branch, or
\* with a detached HEAD.  The script never reads or writes the ignore file
\* of a repository it did not initialize, so these start without one; a
\* restart after an initialization reaches repositories that have one
RepoWorlds ==
    {[exists |-> TRUE, writable |-> TRUE, isRepo |-> TRUE,
      refs |-> Counts(hs), head |-> h, origin |-> o, tracking |-> Counts(tr),
      upstream |-> up, tree |-> t, ignore |-> ig, hook |-> hk, identity |-> id,
      server |-> Counts(sv), gitfile |-> FALSE, issued |-> {}, calls |-> <<>>,
      exc |-> "", trace |-> <<>>, outcomes |-> {}, sig |-> FALSE] :
        hs \in SUBSET (Branches \cup {Detached}), h \in Branches \cup {Detached},
        o \in {None, "urlA"}, tr \in SUBSET Branches, up \in SUBSET Branches,
        t \in {"clean", "modified"}, ig \in {<<>>}, hk \in BOOLEAN,
        id \in {FALSE}, sv \in SUBSET Branches}

RepoOk(w) ==
    /\ (Detached \in DOMAIN w.refs) <=> (w.head = Detached)
    /\ ~Born(w) => w.refs = NoRefs
    /\ w.origin = None => (w.tracking = NoRefs /\ w.server = NoRefs)
    /\ DOMAIN w.tracking \subseteq DOMAIN w.server
    /\ w.upstream \subseteq (DOMAIN w.refs) \cap (DOMAIN w.tracking)

\* A directory without a repository, under every configuration.
FreshInit ==
    /\ world \in {w \in FreshWorlds : FreshOk(w)}
    /\ CREATE_GITIGNORE \in BOOLEAN
    /\ GITIGNORE_EXTRA \in BOOLEAN
    /\ initBranch \in Branches

\* An existing repository.  ensure_git_repo returns at line 210 there, so
\* the options read only after `git init` are left at their defaults
\* (CREATE_GITIGNORE "1", GITIGNORE_EXTRA ""); a restart after a first
\* initialization reaches existing repositories under the other values.
RepoInit ==
    /\ world \in {w \in RepoWorlds : RepoOk(w)}
    /\ CREATE_GITIGNORE = TRUE
    /\ GITIGNORE_EXTRA = FALSE
    /\ initBranch = "main"

Init ==
    /\ FreshInit \/ RepoInit
    /\ pc = "start"
    /\ branch = None
    /\ BRANCH_NAME_ENV \in {None} \cup Branches
    /\ REMOTE_URL \in {None} \cup Urls
    /\ atStart = Snap(world)
    /\ runs = 1

----------------------------------------------------------------------------
(* auto_push_loop, one action per step.                                     *)

Step(w) == [w EXCEPT !.calls = <<>>, !.trace = <<>>, !.outcomes = {}]

\* lines 248-253
Start ==
    /\ pc = "start"
    /\ pc' = IF world.exists THEN "setup" ELSE "done"
    /\ world' = Step(world)
    /\ UNCHANGED <<branch, config, atStart, runs>>

\* line 255
SetupGitConfig ==
    /\ pc = "setup"
    /\ world' = setup_git_config(Step(world))
    /\ pc' = "ensure_repo"
    /\ UNCHANGED <<branch, config, atStart, runs>>

\* lines 258-259
EnsureGitRepo ==
    /\ pc = "ensure_repo"
    /\ \E net \in BOOLEAN :
         LET r == ensure_git_repo(Step(world), REMOTE_URL,
                                  IF BRANCH_NAME_ENV # None THEN BRANCH_NAME_ENV
                                  ELSE "main", net)
         IN  /\ world' = r.s
             /\ pc' = IF r.s.exc # "" THEN "crashed"
                      ELSE IF ~r.ret THEN "done" ELSE "resolve"
    /\ UNCHANGED <<branch, config, atStart, runs>>

\* faulty variant: the branch is not detected again after the checkout
ResolveBranch_no_redetect ==
    /\ pc = "resolve"
    /\ \E net \in BOOLEAN :
         LET cur == get_current_branch(world)
             c == checkout_or_create_branch(Step(world), BRANCH_NAME_ENV, net)
         IN  IF BRANCH_NAME_ENV # None
             THEN /\ world' = c.s
                  /\ branch' = BRANCH_NAME_ENV
             ELSE /\ world' = Step(world)
                  /\ branch' = IF cur # None THEN cur ELSE "main"
    /\ pc' = "upstream"
    /\ UNCHANGED <<config, atStart, runs>>

\* lines 262-272
ResolveBranch ==
    /\ pc = "resolve"
    /\ \E net \in BOOLEAN :
         LET cur == get_current_branch(world)
             b0 == IF BRANCH_NAME_ENV # None THEN BRANCH_NAME_ENV
                   ELSE IF cur # None THEN cur ELSE "main"
             c == checkout_or_create_branch(Step(world), BRANCH_NAME_ENV, net)
             re == get_current_branch(c.s)
         IN  IF BRANCH_NAME_ENV # None
             THEN /\ world' = c.s
                  /\ branch' = IF re # None THEN re ELSE b0
             ELSE /\ world' = Step(world)
                  /\ branch' = b0
    /\ pc' = "upstream"
    /\ UNCHANGED <<config, atStart, runs>>

\* lines 280-282
EnsureUpstream ==
    /\ pc = "upstream"
    /\ \E net \in BOOLEAN : world' = ensure_upstream(Step(world), branch, net).s
    /\ pc' = "cycle"
    /\ UNCHANGED <<branch, config, atStart, runs>>

\* faulty variant: the push is made whether or not there was a change
CycleBody_push_always(s, net) ==
    LET h == has_changes(s)
        c == commit_all(h.s)
    IN  IF ~h.ret THEN push(h.s, branch, net).s
        ELSE push(c.s, branch, net).s

\* lines 286-302: the body of one polling cycle
CycleBody(s, net) ==
    LET h == has_changes(s)
        c == commit_all(h.s)
        p == push(c.s, branch, net)
    IN  IF ~h.ret THEN h.s
        ELSE IF ~c.ret THEN c.s
        ELSE p.s

\* faulty variant: the loop is left when a command of the cycle fails
CycleNet_break(net) ==
    /\ pc = "cycle"
    /\ world' = CycleBody(Step(world), net)
    /\ pc' = IF \E o \in world'.outcomes : ~o.zero THEN "done" ELSE "sleep"
    /\ UNCHANGED <<branch, config, atStart, runs>>

\* lines 286-302: one polling cycle up to the sleep; net tells whether the
\* server can be reached
CycleNet(net) ==
    /\ pc = "cycle"
    /\ world' = CycleBody(Step(world), net)
    /\ pc' = "sleep"
    /\ UNCHANGED <<branch, config, atStart, runs>>

Cycle == \E net \in BOOLEAN : CycleNet(net)

\* line 303: the sleep ends
Sleep ==
    /\ pc = "sleep"
    /\ pc' = "cycle"
    /\ UNCHANGED <<world, branch, config, atStart, runs>>

\* the user changes a file of the directory while the script sleeps
Edit ==
    /\ pc = "sleep"
    /\ world.isRepo
    /\ world.tree = "clean"
    /\ HeadCommits(world) < MaxCommits
    /\ world' = [world EXCEPT !.tree = "modified"]
    /\ UNCHANGED <<pc, branch, config, atStart, runs>>

\* Ctrl+C while lines 251-282 run: no try block is open, the
\* KeyboardInterrupt leaves auto_push_loop and ends the process
InterruptStartup ==
    /\ pc \in {"start", "setup", "ensure_repo", "resolve", "upstream"}
    /\ world' = [Step(world) EXCEPT !.sig = TRUE, !.exc = "KeyboardInterrupt"]
    /\ pc' = "crashed"
    /\ UNCHANGED <<branch, config, atStart, runs>>

\* Ctrl+C while lines 286-302 run: the cycle is left after any of its
\* commands and the handler of lines 305-306 prints the notice
InterruptCycle ==
    /\ pc = "cycle"
    /\ \E net \in BOOLEAN :
         LET w == Step(world)
             h == has_changes(w)
             a == run_command(GitAddAll(h.s), FALSE)
             c == commit_all(h.s)
             p == push(c.s, branch, net)
             left == {h.s} \cup (IF h.ret THEN {a.s, c.s} ELSE {})
                           \cup (IF h.ret /\ c.ret THEN {p.s} ELSE {})
         IN  \E s \in left : world' = [s EXCEPT !.sig = TRUE]
    /\ pc' = "stopped"
    /\ UNCHANGED <<branch, config, atStart, runs>>

\* Ctrl+C during the sleep of line 303, handled by lines 305-306
InterruptSleep ==
    /\ pc = "sleep"
    /\ world' = [world EXCEPT !.sig = TRUE]
    /\ pc' = "stopped"
    /\ UNCHANGED <<branch, config, atStart, runs>>

\* the script has returned, or was stopped in its loop, and is started again
\* with the same configuration
Restart ==
    /\ pc \in {"done", "stopped"}
    /\ runs < MaxRuns
    /\ runs' = runs + 1
    /\ pc' = "start"
    /\ branch' = None
    /\ world' = [world EXCEPT !.issued = {}, !.calls = <<>>, !.exc = "",
                               !.trace = <<>>, !.outcomes = {}, !.sig = FALSE]
    /\ atStart' = Snap(world)
    /\ UNCHANGED config

Next ==
    \/ Start
    \/ SetupGitConfig
    \/ EnsureGitRepo
    \/ ResolveBranch
    \/ EnsureUpstream
    \/ Cycle
    \/ Sleep
    \/ Edit
    \/ InterruptStartup
    \/ InterruptCycle
    \/ InterruptSleep
    \/ Restart

Spec == Init /\ [][Next]_vars

----------------------------------------------------------------------------
(* Properties *)

\* the calls of function fn made by the step that led to this state
CallsOf(fn) == {c \in {world.calls[i] : i \in 1..Len(world.calls)} : c.fn = fn}

\* the run is past the call of ensure_git_repo, which returned True
PastEnsureRepo == pc \in {"resolve", "upstream", "cycle", "sleep"}

\* the step just taken was the last one of the startup (line 280)
StartupDone ==
    /\ pc = "cycle"
    /\ Len(world.calls) = 1
    /\ world.calls[1].fn = "ensure_upstream"

InStartup == pc \in {"setup", "ensure_repo", "resolve", "upstream"} \/ StartupDone

\* the run started in an existing directory without a repository where
\* `git init` fails
InitFails ==
    atStart.exists /\ ~atStart.isRepo /\ (~atStart.writable \/ atStart.gitfile)

\* `git init` succeeds in directory a
InitWorks(a) == a.writable /\ ~a.gitfile

LaterSteps ==
    {"write .gitignore", "add", "commit", "checkout", "checkout -b",
     "checkout -b --track", "remote remove", "remote add", "push -u", "push"}

\* C1: when the path is not a repository and `git init` fails,
\* ensure_git_repo returns False and auto_push_loop returns: none of the
\* later steps is performed and the polling loop is never entered.
C1_FatalShortCircuit ==
    (InitFails /\ ~world.sig) =>
        /\ pc \in {"start", "setup", "ensure_repo", "done"}
        /\ world.issued \cap LaterSteps = {}
        /\ \A c \in CallsOf("ensure_git_repo") : ~c.ret

\* C2: an origin configured when the script starts is never removed or
\* rewritten, whatever REMOTE_URL is, through startup and polling cycles.
C2_RemoteNonDestructive ==
    atStart.origin # None =>
        /\ world.origin = atStart.origin
        /\ world.issued \cap {"remote remove", "remote add"} = {}

C2_Witness ==
    /\ atStart.origin = "urlA"
    /\ REMOTE_URL = "urlB"
    /\ pc = "sleep"
    /\ "push" \in world.issued
    /\ world.origin = "urlA"

\* C3: ensure_upstream, called for a branch without an upstream, attempts
\* `git push -u origin <branch>` and returns True only if that push
\* succeeded, that is only if the branch then has its upstream link.
C3_UpstreamEstablished ==
    \A c \in CallsOf("ensure_upstream") :
        (c.pre.isRepo /\ c.arg \notin c.pre.upstream) =>
            /\ "push -u" \in world.issued
            /\ c.ret => c.arg \in c.post.upstream

\* C4: with no local branch B and a branch B on the remote,
\* checkout_or_create_branch(path, B) returns True with a local branch B
\* checked out and tracking origin/B.
C4_TieBreakRemote ==
    \A c \in CallsOf("checkout_or_create_branch") :
        (/\ c.pre.isRepo
         /\ c.arg \notin DOMAIN c.pre.refs
         /\ c.pre.origin # None
         /\ c.arg \in DOMAIN c.pre.server) =>
            /\ c.ret
            /\ c.post.head = c.arg
            /\ c.arg \in DOMAIN c.post.refs
            /\ c.arg \in c.post.upstream

\* C5: with neither a local branch B nor a remote branch origin/B,
\* checkout_or_create_branch(path, B) creates a local branch B and checks
\* it out.
C5_TieBreakLastResort ==
    \A c \in CallsOf("checkout_or_create_branch") :
        (/\ c.pre.isRepo
         /\ c.arg \notin DOMAIN c.pre.refs
         /\ c.arg \notin DOMAIN c.pre.server
         /\ c.arg \notin DOMAIN c.pre.tracking) =>
            c.post.head = c.arg

\* initialized, the configured branch checked out with commits, origin
\* set, upstream linked, clean working tree
FullyConfigured(a) ==
    /\ a.isRepo
    /\ a.head \in DOMAIN a.refs
    /\ a.head # Detached
    /\ BRANCH_NAME_ENV # None => a.head = BRANCH_NAME_ENV
    /\ a.origin # None
    /\ a.head \in a.upstream
    /\ a.tree = "clean"

\* the global git identity is not part of the repository
Repository(a) == [a EXCEPT !.identity = TRUE]

Mutating ==
    {"init", "write .gitignore", "commit", "checkout -b", "checkout -b --track",
     "remote remove", "remote add", "push -u", "push"}

\* C6: on a fully configured repository the startup reconciliation changes
\* nothing: the repository is as it was when the run started, and no init,
\* commit, branch creation, remote removal or addition, or push -u is issued.
C6_Idempotence ==
    (FullyConfigured(atStart) /\ InStartup) =>
        /\ Repository(Snap(world)) = Repository(atStart)
        /\ world.issued \cap Mutating = {}

C6_Witness ==
    /\ runs = 2
    /\ FullyConfigured(atStart)
    /\ StartupDone
    /\ BRANCH_NAME_ENV # None
    /\ "checkout" \in world.issued

\* C7 as stated: with REMOTE_URL configured and no origin at the start, in
\* a fresh directory (where `git init` succeeds) or in an existing
\* repository, origin points at REMOTE_URL after startup.
C7_OriginCreatedWhenAbsent ==
    (/\ REMOTE_URL # None
     /\ atStart.exists /\ InitWorks(atStart)
     /\ atStart.origin = None
     /\ PastEnsureRepo) =>
        world.origin = REMOTE_URL

\* C7 amended: with REMOTE_URL configured, a directory that is not yet a
\* repository and in which `git init` succeeds has origin pointing at
\* REMOTE_URL after startup; an existing repository without origin gets
\* none.
C7_OriginCreatedOnInit ==
    (REMOTE_URL # None /\ atStart.exists /\ PastEnsureRepo) =>
        /\ (~atStart.isRepo /\ InitWorks(atStart)) => world.origin = REMOTE_URL
        /\ (atStart.isRepo /\ atStart.origin = None) => world.origin = None

C7_Witness ==
    /\ REMOTE_URL = "urlB"
    /\ ~atStart.isRepo /\ InitWorks(atStart)
    /\ pc = "sleep"
    /\ world.origin = "urlB"

\* C8: with BRANCH_NAME configured, once startup has completed the checked
\* out branch is BRANCH_NAME, for every start state (in which `git init`,
\* if needed, succeeds).
C8_ConfiguredBranchCurrent ==
    (/\ BRANCH_NAME_ENV # None
     /\ atStart.exists /\ InitWorks(atStart)
     /\ pc \in {"cycle", "sleep"}) =>
        world.head = BRANCH_NAME_ENV

\* C9: commit_all on a clean working tree returns True and leaves the
\* history as it was; it returns False when the commit fails for another
\* reason than there being nothing to commit.
C9_CommitIdempotence ==
    \A c \in CallsOf("commit_all") :
        /\ c.pre.tree = "clean" => (c.ret /\ c.post.refs = c.pre.refs)
        /\ (c.pre.tree # "clean" /\ c.post.refs = c.pre.refs) => ~c.ret

\* after `git init` there is something to commit: a file was in the
\* directory, or the ignore file is written
HasFilesAfterInit(a) ==
    \/ a.tree # "clean"
    \/ CREATE_GITIGNORE /\ (a.ignore = <<>> \/ GITIGNORE_EXTRA)

\* C10 as stated: whenever ensure_git_repo returns True (`git init`, if
\* needed, having succeeded) the directory is a repository with at least
\* one commit.
C10_AtLeastOneCommit ==
    \A c \in CallsOf("ensure_git_repo") :
        (c.ret /\ InitWorks(c.pre)) => (c.post.isRepo /\ c.post.refs # NoRefs)

\* C10 amended: when ensure_git_repo initializes a directory (`git init`
\* succeeds) that then holds something to commit, it returns True with a
\* repository of one commit; an empty directory with no ignore file written
\* is left without commits, and an existing repository is returned as found,
\* commits or not.
C10_CommitWhenFiles ==
    \A c \in CallsOf("ensure_git_repo") :
        /\ (~c.pre.isRepo /\ InitWorks(c.pre) /\ HasFilesAfterInit(c.pre)) =>
               (c.ret /\ c.post.isRepo /\ c.post.refs = Counts({c.post.head}))
        /\ (~c.pre.isRepo /\ InitWorks(c.pre) /\ ~HasFilesAfterInit(c.pre)) =>
               (c.ret /\ c.post.isRepo /\ c.post.refs = NoRefs)
        /\ c.pre.isRepo => (c.ret /\ c.post = c.pre)

C10_Witness ==
    \E c \in CallsOf("ensure_git_repo") :
        /\ ~c.pre.isRepo /\ InitWorks(c.pre)
        /\ c.pre.tree = "clean" /\ CREATE_GITIGNORE
        /\ c.ret
        /\ c.post.refs # NoRefs

\* C11: an interrupt delivered at any point of auto_push_loop (startup,
\* cycle or sleep) ends the run with the shutdown notice of lines 305-306
\* and no uncaught exception.
C11_CleanShutdown ==
    world.sig => (pc = "stopped" /\ world.exc = "")

\* C12: whatever has_changes, commit_all and push do in a cycle, failures
\* included, the cycle ends in the sleep and the sleep ends in the next
\* cycle; the loop is left only by an interrupt.
C12_LoopContinues ==
    [][/\ pc = "cycle" => (pc' = "sleep" \/ (pc' = "stopped" /\ world'.sig))
       /\ pc = "sleep" => (pc' \in {"sleep", "cycle"} \/ (pc' = "stopped" /\ world'.sig))
       /\ pc \in {"cycle", "sleep"} => world'.exc = ""]_vars

\* the next cycle is about to start after one whose commit was made and
\* whose push failed
C12_Witness ==
    /\ pc = "cycle"
    /\ \E o \in world.outcomes : ~o.zero
    /\ \E c \in CallsOf("push") :
           c.pre.origin # None /\ c.post.server = c.pre.server

\* C13: run_command returns success exactly for the commands that exit
\* with status 0, and failure for those that exit non-zero.
C13_OutcomeCapture ==
    \A o \in world.outcomes : o.ok <=> o.zero

\* the startup has resolved the branch
BranchResolved == pc \in {"upstream", "cycle", "sleep", "stopped"}

\* the calls of ensure_upstream at line 280 and of push in the loop
BranchUses ==
    IF pc \in {"cycle", "sleep", "stopped"}
    THEN CallsOf("ensure_upstream") \cup CallsOf("push")
    ELSE {}

\* C14 as stated: the branch given to ensure_upstream and to every push of
\* the loop is BRANCH_NAME when it is configured, also when its checkout
\* did not take effect; otherwise the current branch, otherwise "main".
C14_BranchPriority ==
    BranchResolved =>
        LET cur == get_current_branch(world)
            b == IF BRANCH_NAME_ENV # None THEN BRANCH_NAME_ENV
                 ELSE IF cur # None THEN cur ELSE "main"
        IN  branch = b /\ \A c \in BranchUses : c.arg = b

\* C14 amended: the branch given to ensure_upstream and to every push of
\* the loop is the branch that is current once the startup has tried the
\* checkout of BRANCH_NAME (BRANCH_NAME itself when that checkout took
\* effect); when no current branch is detected it is BRANCH_NAME if
\* configured, otherwise "main".
C14_BranchDetected ==
    BranchResolved =>
        LET cur == get_current_branch(world)
            b == IF cur # None THEN cur
                 ELSE IF BRANCH_NAME_ENV # None THEN BRANCH_NAME_ENV ELSE "main"
        IN  branch = b /\ \A c \in BranchUses : c.arg = b

\* a push on the branch the repository stayed on, BRANCH_NAME being another
C14_Witness ==
    /\ pc = "sleep"
    /\ BRANCH_NAME_ENV = "dev"
    /\ world.head = "main"
    /\ \E c \in CallsOf("push") : c.arg = "main"

\* the run has written the ignore file
IgnoreWritten == "write .gitignore" \in world.issued

\* the number of entries of sequence q that equal x
Count(q, x) == Cardinality({i \in 1..Len(q) : q[i] = x})

\* C15: the ignore file is written only in a run that found no repository
\* and whose `git init` succeeded, and at most once; what a .gitignore held
\* at the start is kept, the default template being written only when there
\* was none and the extra lines only appended; with CREATE_GITIGNORE off the
\* file is left as it was.
C15_IgnoreOnFirstInit ==
    /\ IgnoreWritten => (~atStart.isRepo /\ InitWorks(atStart) /\ world.isRepo)
    /\ Count(world.trace, "write .gitignore") <= 1
    /\ Len(world.ignore) >= Len(atStart.ignore)
    /\ SubSeq(world.ignore, 1, Len(atStart.ignore)) = atStart.ignore
    /\ (atStart.ignore # <<>> /\ world.ignore # atStart.ignore) =>
           world.ignore = Append(atStart.ignore, "extra")
    /\ ~CREATE_GITIGNORE => (world.ignore = atStart.ignore /\ ~IgnoreWritten)

\* q is an initial part of sequence r
IsPrefix(q, r) == Len(q) <= Len(r) /\ q = SubSeq(r, 1, Len(q))

\* C16: in every cycle the commands come in the order add, commit, push; a
\* push is attempted only after has_changes reported changes and commit_all
\* returned True in that cycle; without changes nothing is committed or
\* pushed, and after commit_all returned False nothing is pushed.
C16_PushGatedByCommit ==
    pc \in {"sleep", "stopped"} =>
        /\ IsPrefix(world.trace, <<"add", "commit", "push">>)
        /\ pc = "sleep" => Len(world.trace) # 1
        /\ Cardinality(CallsOf("has_changes")) = 1
        /\ Count(world.trace, "push") = Cardinality(CallsOf("push"))
        /\ CallsOf("push") # {} =>
               /\ \E h \in CallsOf("has_changes") : h.ret
               /\ \E c \in CallsOf("commit_all") : c.ret
               /\ world.trace = <<"add", "commit", "push">>
        /\ (\A h \in CallsOf("has_changes") : ~h.ret) =>
               (world.trace = <<>> /\ CallsOf("commit_all") = {})
        /\ (\E c \in CallsOf("commit_all") : ~c.ret) => CallsOf("push") = {}

\* a cycle that found changes, committed them and pushed
C16_Witness ==
    /\ pc = "sleep"
    /\ world.trace = <<"add", "commit", "push">>
    /\ \E h \in CallsOf("has_changes") : h.ret
    /\ \E c \in CallsOf("commit_all") : c.ret
    /\ \E c \in CallsOf("push") : c.post.server # c.pre.server

\* the calls of function fn noted in w
CallsIn(w, fn) == {c \in {w.calls[i] : i \in 1..Len(w.calls)} : c.fn = fn}

\* the last cycle noted in w made a commit and its push to origin did not
\* reach the server
CommitLeftUnpushed(w) ==
    /\ \E c \in CallsIn(w, "commit_all") : c.post.refs # c.pre.refs
    /\ \E p \in CallsIn(w, "push") :
           p.pre.origin # None /\ p.post.server = p.pre.server

\* C17: a commit made by a cycle whose push failed is pushed by the cycles
\* that follow, also when the working tree does not change any more: the
\* cycle after the failed push attempts the push again (or at least does
\* something that a later cycle could build on).
C17_CommittedWorkPushed ==
    [][(pc = "cycle" /\ pc' = "sleep" /\ CommitLeftUnpushed(world)) =>
           \/ CallsIn(world', "push") # {}
           \/ Snap(world') # Snap(world)]_vars

====
